---------------------------- MODULE Spec2Model ----------------------------
(***************************************************************************)
(* HungarianMatcher of celldetr/models/deformable_detr/matcher.py.         *)
(*                                                                         *)
(* Tensors are functions over 0..n-1 (the code's own index space).  Float  *)
(* values are fixed-point integers in hundredths; the finite range is      *)
(* -FMax..FMax and PInf, NInf and NaN are the three non-finite values.     *)
(***************************************************************************)
EXTENDS Integers, Sequences, FiniteSets, TLC

\* ------------------------------------------------------------------ bounds
MaxBatch   == 2
MaxQueries == 3
MaxTargets == 2
\* largest finite tensor value (float32's maximum, at the model's scale)
FMax       == 1000000

\* ------------------------------------------------------- tensor arithmetic
PInf == FMax + 1
NInf == 0 - PInf
NaN  == FMax + 2

IsNan(x)    == x = NaN
IsInf(x)    == x = PInf \/ x = NInf
IsFinite(x) == x >= 0 - FMax /\ x <= FMax

Abs(n) == IF n < 0 THEN 0 - n ELSE n

\* the float a real result rounds to: out of range overflows to an infinity
Overflow(n) == IF n > FMax THEN PInf ELSE IF n < 0 - FMax THEN NInf ELSE n

FAdd(a, b) ==
    IF IsNan(a) \/ IsNan(b) THEN NaN
    ELSE IF (a = PInf /\ b = NInf) \/ (a = NInf /\ b = PInf) THEN NaN
    ELSE IF IsInf(a) THEN a
    ELSE IF IsInf(b) THEN b
    ELSE Overflow(a + b)

FNeg(a) == IF IsNan(a) THEN NaN ELSE 0 - a

FSub(a, b) == FAdd(a, FNeg(b))

FAbs(a) == IF IsNan(a) THEN NaN ELSE Abs(a)

FMul(a, b) ==
    IF IsNan(a) \/ IsNan(b) THEN NaN
    ELSE IF a = 0 \/ b = 0 THEN (IF IsInf(a) \/ IsInf(b) THEN NaN ELSE 0)
    ELSE IF IsInf(a) \/ IsInf(b) \/ Abs(a) > FMax \div Abs(b)
         THEN (IF (a > 0) = (b > 0) THEN PInf ELSE NInf)
    ELSE a * b

\* ------------------------------------------------------------ index helpers
Idx(n)  == 0 .. (n - 1)
Size(f) == Cardinality(DOMAIN f)
Min(a, b) == IF a < b THEN a ELSE b

RECURSIVE SumTo(_, _)
\* f[0] + ... + f[k-1]
SumTo(f, k) == IF k <= 0 THEN 0 ELSE SumTo(f, k - 1) + f[k - 1]

\* --------------------------------------------- scipy linear_sum_assignment
\* A cost block is [nr, nc, c] with c[i][j] the cost of row i and column j.
\* The solver works in doubles: DInf is its infinity, above every finite sum.
DInf == 1000 * FMax

Transpose(m) ==
    [nr |-> m.nc, nc |-> m.nr,
     c  |-> [i \in Idx(m.nc) |-> [j \in Idx(m.nr) |-> m.c[j][i]]]]

RECURSIVE LsapScan(_, _, _, _, _, _, _, _, _, _)
\* the for loop of augmenting_path over the remaining columns
LsapScan(m, u, v, row4col, i, minVal, remaining, num, it, acc) ==
    IF it >= num THEN acc
    ELSE LET j    == remaining[it]
             r    == IF m.c[i][j] = PInf THEN DInf
                     ELSE minVal + m.c[i][j] - u[i] - v[j]
             upd  == r < acc.spc[j]
             spc1 == IF upd THEN [acc.spc EXCEPT ![j] = r] ELSE acc.spc
             pth1 == IF upd THEN [acc.path EXCEPT ![j] = i] ELSE acc.path
             take == \/ spc1[j] < acc.lowest
                     \/ (spc1[j] = acc.lowest /\ row4col[j] = -1)
         IN  LsapScan(m, u, v, row4col, i, minVal, remaining, num, it + 1,
                 [path   |-> pth1,
                  spc    |-> spc1,
                  lowest |-> IF take THEN spc1[j] ELSE acc.lowest,
                  index  |-> IF take THEN it ELSE acc.index])

RECURSIVE LsapPath(_, _, _, _, _)

\* one turn of the while loop of augmenting_path, sc being the scan's outcome
LsapVisit(m, u, v, row4col, s, sc) ==
    IF sc.lowest = DInf THEN [s EXCEPT !.feasible = FALSE]
    ELSE LsapPath(m, u, v, row4col,
            [i         |-> IF row4col[s.remaining[sc.index]] = -1 THEN s.i
                           ELSE row4col[s.remaining[sc.index]],
             minVal    |-> sc.lowest,
             SR        |-> s.SR \cup {s.i},
             SC        |-> s.SC \cup {s.remaining[sc.index]},
             spc       |-> sc.spc,
             path      |-> sc.path,
             remaining |-> [s.remaining EXCEPT
                              ![sc.index] = s.remaining[s.num - 1]],
             num       |-> s.num - 1,
             sink      |-> IF row4col[s.remaining[sc.index]] = -1
                           THEN s.remaining[sc.index] ELSE -1,
             feasible  |-> TRUE])

\* the while loop of augmenting_path: s.sink is the sink found, or -1;
\* s.feasible is FALSE when no finite path is left
LsapPath(m, u, v, row4col, s) ==
    IF s.sink # -1 \/ ~s.feasible THEN s
    ELSE LsapVisit(m, u, v, row4col, s,
            LsapScan(m, u, v, row4col, s.i, s.minVal, s.remaining, s.num, 0,
                     [path |-> s.path, spc |-> s.spc,
                      lowest |-> DInf, index |-> -1]))

RECURSIVE LsapAugment(_, _, _, _, _)
\* augment the previous solution along the path that ends in column j
LsapAugment(path, row4col, col4row, curRow, j) ==
    IF path[j] = curRow
    THEN [row4col |-> [row4col EXCEPT ![j] = path[j]],
          col4row |-> [col4row EXCEPT ![path[j]] = j]]
    ELSE LsapAugment(path, [row4col EXCEPT ![j] = path[j]],
                     [col4row EXCEPT ![path[j]] = j], curRow,
                     col4row[path[j]])

\* the duals and the matching with the augmented solution a
LsapAugmented(u, v, path, a) ==
    [u |-> u, v |-> v, path |-> path,
     col4row |-> a.col4row, row4col |-> a.row4col, ok |-> TRUE]

RECURSIVE LsapRows(_, _, _)

\* the body of the loop over curRow, s being augmenting_path's outcome:
\* update the dual variables, then augment the previous solution
LsapUpdate(m, curRow, d, s) ==
    IF ~s.feasible THEN [d EXCEPT !.ok = FALSE]
    ELSE LsapRows(m, curRow + 1,
            LsapAugmented(
                [i \in Idx(m.nr) |->
                    IF i = curRow THEN d.u[i] + s.minVal
                    ELSE IF i \in s.SR
                         THEN d.u[i] + s.minVal - s.spc[d.col4row[i]]
                         ELSE d.u[i]],
                [j \in Idx(m.nc) |->
                    IF j \in s.SC THEN d.v[j] - (s.minVal - s.spc[j])
                    ELSE d.v[j]],
                s.path,
                LsapAugment(s.path, d.row4col, d.col4row, curRow, s.sink)))

\* the loop over curRow (m.nr <= m.nc); d holds the duals and the matching
LsapRows(m, curRow, d) ==
    IF curRow >= m.nr \/ ~d.ok THEN d
    ELSE LsapUpdate(m, curRow, d,
            LsapPath(m, d.u, d.v, d.row4col,
                [i |-> curRow, minVal |-> 0, SR |-> {}, SC |-> {},
                 spc       |-> [j \in Idx(m.nc) |-> DInf],
                 path      |-> d.path,
                 remaining |-> [it \in Idx(m.nc) |-> m.nc - it - 1],
                 num       |-> m.nc,
                 sink      |-> -1,
                 feasible  |-> TRUE]))

\* the k-th smallest (k = 0, 1, ...) element of a set of integers
KthSmallest(S, k) == CHOOSE x \in S : Cardinality({y \in S : y < x}) = k

\* LsapTransposedOutput without the argsort: pairs in column order
LsapTransposedOutputUnsorted(col4row) ==
    [ok      |-> TRUE,
     row_ind |-> col4row,
     col_ind |-> [k \in DOMAIN col4row |-> k]]

\* the pairs of a transposed solution, ordered by the original row
LsapTransposedOutput(col4row) ==
    LET rows == {col4row[x] : x \in DOMAIN col4row}
    IN  [ok      |-> TRUE,
         row_ind |-> [k \in DOMAIN col4row |-> KthSmallest(rows, k)],
         col_ind |-> [k \in DOMAIN col4row |->
                        CHOOSE x \in DOMAIN col4row :
                            col4row[x] = KthSmallest(rows, k)]]

\* the arrays a and b of the solution d: rows ascending, and their columns
LsapOutput(transpose, d) ==
    IF ~d.ok THEN [ok |-> FALSE, row_ind |-> <<>>, col_ind |-> <<>>]
    ELSE IF transpose THEN LsapTransposedOutput(d.col4row)
    ELSE [ok |-> TRUE,
          row_ind |-> [i \in DOMAIN d.col4row |-> i],
          col_ind |-> d.col4row]

\* solve() on a matrix with no more rows than columns
LsapSolve(m) ==
    LsapRows(m, 0,
        [u |-> [i \in Idx(m.nr) |-> 0],
         v |-> [j \in Idx(m.nc) |-> 0],
         path    |-> [j \in Idx(m.nc) |-> -1],
         col4row |-> [i \in Idx(m.nr) |-> -1],
         row4col |-> [j \in Idx(m.nc) |-> -1],
         ok |-> TRUE])

\* linear_sum_assignment(cost_matrix): [ok, row_ind, col_ind]; ok is FALSE
\* when it raises ValueError (invalid entries, or an infeasible matrix)
LinearSumAssignment(block) ==
    IF block.nr = 0 \/ block.nc = 0
    THEN [ok |-> TRUE, row_ind |-> <<>>, col_ind |-> <<>>]
    ELSE IF \E i \in Idx(block.nr), j \in Idx(block.nc) :
                IsNan(block.c[i][j]) \/ block.c[i][j] = NInf
         THEN [ok |-> FALSE, row_ind |-> <<>>, col_ind |-> <<>>]
    ELSE LsapOutput(block.nc < block.nr,
            LsapSolve(IF block.nc < block.nr THEN Transpose(block)
                      ELSE block))

\* ----------------------------------------------------------- input pools
\* <<a, b, ...>> as a tensor row indexed from 0
Vec(seq) == [i \in Idx(Len(seq)) |-> seq[i + 1]]

\* one, in the fixed-point unit of the tensor values (hundredths)
Unit == 100

\* predictions a call can hold: the class logits and the 5 moments
\* [cx, cy, var_x, var_y, cov_xy] of one query (moments in hundredths)
QueryPool ==
    << [logits |-> Vec(<< 2, -2>>), moments |-> Vec(<< 0,  0, 25, 25,  0>>)],
       [logits |-> Vec(<<-2,  2>>), moments |-> Vec(<<50,  0, 50, 25,  0>>)],
       [logits |-> Vec(<< 0,  0>>), moments |-> Vec(<< 0, 50, 25, 25, 25>>)],
       [logits |-> Vec(<< 2,  2>>), moments |-> Vec(<<25, 25, 50, 50, 25>>)],
       [logits |-> Vec(<<-2, -2>>), moments |-> Vec(<<50, 50, 25, 25, 50>>)] >>

\* ground-truth objects a call can hold: the class label and the 5 moments
TargetPool ==
    << [label |-> 0, moments |-> Vec(<< 0,  0, 25, 25,  0>>)],
       [label |-> 1, moments |-> Vec(<<50,  0, 50, 25,  0>>)],
       [label |-> 0, moments |-> Vec(<<25, 25, 25, 25, 25>>)],
       [label |-> 1, moments |-> Vec(<< 0, 50, 50, 50, 25>>)] >>

PoolAt(pool, n) == pool[(n % Len(pool)) + 1]

\* outputs: pred_logits of shape (bs, nq, classes), pred_moments (bs, nq, 5)
Outputs(bs, nq, start) ==
    [bs |-> bs, nq |-> nq,
     pred_logits  |-> [b \in Idx(bs) |-> [q \in Idx(nq) |->
                          PoolAt(QueryPool, start + b * nq + q).logits]],
     pred_moments |-> [b \in Idx(bs) |-> [q \in Idx(nq) |->
                          PoolAt(QueryPool, start + b * nq + q).moments]]]

\* targets: a list of dicts; counts[k] rows of labels and of moments and
\* boxes[k] rows of boxes in the k-th one
Targets(counts, boxes, start) ==
    [k \in DOMAIN counts |->
        [labels  |-> [j \in Idx(counts[k]) |->
                        PoolAt(TargetPool, start + SumTo(counts, k) + j).label],
         moments |-> [j \in Idx(counts[k]) |->
                        PoolAt(TargetPool, start + SumTo(counts, k) + j).moments],
         boxes   |-> boxes[k]]]

CountLists(len) == [Idx(len) -> 0 .. MaxTargets]

\* lists of box counts that differ from the row counts n: the counts handed
\* round by one place, and those with one count one higher or one lower
OtherBoxCounts(n) ==
    {[k \in DOMAIN n |-> n[(k + 1) % Size(n)]]}
    \cup UNION {{[n EXCEPT ![k] = v] :
                    v \in (0 .. MaxTargets) \cap {n[k] - 1, n[k] + 1}} :
                k \in DOMAIN n}

\* the numbers of queries tried with malformed targets
FewQueries == {0, 1, MaxQueries}

\* a finite weight so large that its product with the KL penalty (1000) is
\* not finite
BigWeight == FMax \div (1000 * Unit) + 1

\* the (cost_class, cost_moments, cost_kl) configurations
WeightConfigs ==
    { <<0, 0, 0>>, <<1, 1, 1>>, <<2, 5, 0>>, <<1, 2, BigWeight>> }

\* -------------------------------------------------------- cost: class term
Alpha == 25
Gamma == 2

RECURSIVE Pow(_, _)
Pow(b, e) == IF e = 0 THEN 1 ELSE b * Pow(b, e - 1)

\* sigmoid of a logit, in hundredths
Sigmoid(l) == CASE l = -2 -> 12 [] l = 0 -> 50 [] l = 2 -> 88

\* -log(p + 1e-8) of a probability p, both in hundredths
NegLog(p) == CASE p = 12 -> 212 [] p = 50 -> 69 [] p = 88 -> 13

\* (1 - alpha) * (out_prob ** gamma) * (-(1 - out_prob + 1e-8).log())
NegCostClass(p) ==
    ((Unit - Alpha) * Pow(p, Gamma) * NegLog(Unit - p)) \div Pow(Unit, Gamma + 1)

\* alpha * ((1 - out_prob) ** gamma) * (-(out_prob + 1e-8).log())
PosCostClass(p) ==
    (Alpha * Pow(Unit - p, Gamma) * NegLog(p)) \div Pow(Unit, Gamma + 1)

\* pos_cost_class[:, tgt_ids] - neg_cost_class[:, tgt_ids]
CostClass(out_prob, tgt_ids) ==
    [r \in DOMAIN out_prob |-> [j \in DOMAIN tgt_ids |->
        FSub(PosCostClass(out_prob[r][tgt_ids[j]]),
             NegCostClass(out_prob[r][tgt_ids[j]]))]]

\* ------------------------------------------------------ cost: moments term
RECURSIVE L1Dist(_, _, _)
\* sum of |a[d] - b[d]| over the first n components
L1Dist(a, b, n) ==
    IF n = 0 THEN 0
    ELSE FAdd(L1Dist(a, b, n - 1), FAbs(FSub(a[n - 1], b[n - 1])))

\* torch.cdist(out_moments, tgt_moments, p=1)
Cdist(out_moments, tgt_moments) ==
    [r \in DOMAIN out_moments |-> [j \in DOMAIN tgt_moments |->
        L1Dist(out_moments[r], tgt_moments[j], Size(out_moments[r]))]]

\* ----------------------------------------------------------- cost: KL term
\* side of the absolute coordinate space
DenormSize == 8

\* denormalize_moments: normalized (hundredths) to absolute coordinates
DenormalizeMoments(m) == [d \in DOMAIN m |-> (m[d] * DenormSize) \div Unit]

\* moments_to_cov of [var_x, var_y, cov_xy]: [[xx, xy], [xy, yy]]
MomentsToCov(m) == [xx |-> m[2], yy |-> m[3], xy |-> m[4]]

Det(S) == S.xx * S.yy - S.xy * S.xy

\* log of a positive integer, in hundredths
Log(n) ==
    << 0, 69, 110, 139, 161, 179, 195, 208,
       220, 230, 240, 248, 256, 264, 271, 277 >>[n]

\* n / d rounded towards minus infinity, d # 0
Quot(n, d) == IF d > 0 THEN n \div d ELSE (0 - n) \div (0 - d)

\* KL(N(mu_a, S_a) || N(mu_b, S_b)) in hundredths: not finite when a
\* covariance is singular or the determinants differ in sign
KLDivergence(mu_a, S_a, mu_b, S_b) ==
    LET da == Det(S_a)
        db == Det(S_b)
        dx == mu_b[0] - mu_a[0]
        dy == mu_b[1] - mu_a[1]
        tr == S_b.yy * S_a.xx - 2 * S_b.xy * S_a.xy + S_b.xx * S_a.yy
        mh == S_b.yy * dx * dx - 2 * S_b.xy * dx * dy + S_b.xx * dy * dy
    IN  IF db = 0 THEN NaN
        ELSE IF da = 0 THEN (IF db > 0 THEN PInf ELSE NInf)
        ELSE IF (da > 0) # (db > 0) THEN NaN
        ELSE Overflow((Quot(Unit * (tr + mh), db) - 2 * Unit
                       + Log(Abs(db)) - Log(Abs(da))) \div 2)

\* kl_divergence_batched(mu_src, Sigma_src, mu_tgt, Sigma_tgt)
KLDivergenceBatched(out_moments, tgt_moments) ==
    [r \in DOMAIN out_moments |-> [j \in DOMAIN tgt_moments |->
        LET a == DenormalizeMoments(out_moments[r])
            b == DenormalizeMoments(tgt_moments[j])
        IN  KLDivergence(a, MomentsToCov(a), b, MomentsToCov(b))]]

\* the value that replaces a NaN or Inf entry of cost_kl: 1000
Penalty == 1000 * Unit

\* cost_kl[cost_kl.isnan() | cost_kl.isinf()] = 1000
Sanitize(cost_kl) ==
    [r \in DOMAIN cost_kl |-> [j \in DOMAIN cost_kl[r] |->
        IF IsNan(cost_kl[r][j]) \/ IsInf(cost_kl[r][j]) THEN Penalty
        ELSE cost_kl[r][j]]]

\* ------------------------------------------------------------------ forward
\* tensor.flatten(0, 1) of a (bs, nq, ...) tensor
Flatten(t, bs, nq) == [r \in Idx(bs * nq) |-> t[r \div nq][r % nq]]

\* torch.cat of a list of tensors along their first axis
Cat(parts) ==
    LET n     == Size(parts)
        sizes == [k \in Idx(n) |-> Size(parts[k])]
    IN  [j \in Idx(SumTo(sizes, n)) |->
            LET k == CHOOSE k \in Idx(n) :
                        SumTo(sizes, k) <= j /\ j < SumTo(sizes, k + 1)
            IN  parts[k][j - SumTo(sizes, k)]]

\* out_prob: the sigmoid of the flattened logits
OutProb(o) ==
    LET flat == Flatten(o.pred_logits, o.bs, o.nq)
    IN  [r \in DOMAIN flat |-> [c \in DOMAIN flat[r] |-> Sigmoid(flat[r][c])]]

OutMoments(o) == Flatten(o.pred_moments, o.bs, o.nq)
TgtIds(t)     == Cat([k \in DOMAIN t |-> t[k].labels])
TgtMoments(t) == Cat([k \in DOMAIN t |-> t[k].moments])

\* the raw KL term, before the non-finite entries are replaced
RawCostKL(o, t) == KLDivergenceBatched(OutMoments(o), TgtMoments(t))

\* C = cost_moments * L1 + cost_class * class + cost_kl * KL, flattened:
\* bs * nq rows and one column per concatenated target
CostMatrix(m, o, t) ==
    LET cost_class   == CostClass(OutProb(o), TgtIds(t))
        cost_moments == Cdist(OutMoments(o), TgtMoments(t))
        cost_kl      == Sanitize(RawCostKL(o, t))
    IN  [r \in Idx(o.bs * o.nq) |-> [j \in DOMAIN TgtIds(t) |->
            FAdd(FAdd(FMul(m.cost_moments, cost_moments[r][j]),
                      FMul(m.cost_class, cost_class[r][j])),
                 FMul(m.cost_kl, cost_kl[r][j]))]]

\* C.view(bs, num_queries, -1)
View(C, bs, nq) == [b \in Idx(bs) |-> [q \in Idx(nq) |-> C[b * nq + q]]]

\* Sizes reading the labels of each target instead of its boxes
SizesFromLabels(t) == [k \in DOMAIN t |-> Size(t[k].labels)]

\* sizes = [len(v["boxes"]) for v in targets]
Sizes(t) == [k \in DOMAIN t |-> t[k].boxes]

\* ChunkStart with every chunk read from the first column on
ChunkStartZero(sizes, k) == 0

\* the first column of the k-th chunk of C.split(sizes, -1)
ChunkStart(sizes, k) == SumTo(sizes, k)

\* C.split(sizes, -1): the k-th chunk holds sizes[k] columns of every row
Split(Cv, sizes) ==
    [k \in DOMAIN sizes |-> [b \in DOMAIN Cv |-> [q \in DOMAIN Cv[b] |->
        [j \in Idx(sizes[k]) |-> Cv[b][q][ChunkStart(sizes, k) + j]]]]]

\* c[i]: the rows of batch element i in chunk c, as the solver's cost matrix
BatchRows(c, i, nq, width) == [nr |-> nq, nc |-> width, c |-> c[i]]

\* IndexPair with the two tensors in the other order
IndexPairSwapped(sol) == [index_i |-> sol.col_ind, index_j |-> sol.row_ind]

\* (torch.as_tensor(i), torch.as_tensor(j)) of a solution
IndexPair(sol) == [index_i |-> sol.row_ind, index_j |-> sol.col_ind]

RECURSIVE SolveChunks(_, _, _, _, _, _)

\* the outcome of the comprehension once the solver answered sol on block
Solved(chunks, sizes, bs, nq, i, acc, block, sol) ==
    IF ~sol.ok
    THEN [status |-> "ValueError", indices |-> acc.indices,
          solved |-> Append(acc.solved, block)]
    ELSE SolveChunks(chunks, sizes, bs, nq, i + 1,
            [status  |-> "ok",
             indices |-> Append(acc.indices, IndexPair(sol)),
             solved  |-> Append(acc.solved, block)])

\* the list comprehension over enumerate(C.split(sizes, -1)), from chunk i on
SolveChunks(chunks, sizes, bs, nq, i, acc) ==
    IF i >= Size(chunks) THEN acc
    ELSE IF i >= bs THEN [acc EXCEPT !.status = "IndexError"]
    ELSE Solved(chunks, sizes, bs, nq, i, acc,
                BatchRows(chunks[i], i, nq, sizes[i]),
                LinearSumAssignment(BatchRows(chunks[i], i, nq, sizes[i])))

\* a list built by appending, indexed from 0
FromSeq(s) == [k \in Idx(Len(s)) |-> s[k + 1]]

\* what the caller gets: the list, or nothing when an exception was raised
Outcome(r) ==
    [status  |-> r.status,
     indices |-> IF r.status = "ok" THEN FromSeq(r.indices) ELSE <<>>,
     solved  |-> FromSeq(r.solved)]

\* HungarianMatcher.forward(outputs, targets): the status it ends with, the
\* list it returns (empty when it raises) and the blocks the solver was given
ForwardResult(m, o, t) ==
    IF Size(t) = 0                                      \* torch.cat([])
    THEN [status |-> "RuntimeError", indices |-> <<>>, solved |-> <<>>]
    ELSE IF o.bs * o.nq = 0                             \* view(bs, 0, -1)
    THEN [status |-> "RuntimeError", indices |-> <<>>, solved |-> <<>>]
    ELSE IF SumTo(Sizes(t), Size(t)) # Size(TgtIds(t))  \* split(sizes, -1)
    THEN [status |-> "RuntimeError", indices |-> <<>>, solved |-> <<>>]
    ELSE Outcome(SolveChunks(
            Split(View(CostMatrix(m, o, t), o.bs, o.nq), Sizes(t)),
            Sizes(t), o.bs, o.nq, 0,
            [status |-> "ok", indices |-> <<>>, solved |-> <<>>]))

\* ---------------------------------------------------------------- the state
VARIABLES
    cfg,        \* the weights the last construction was asked for
    matcher,    \* the matcher the last construction returned, if it did
    pc,         \* "idle", or "returned" while a forward call's outcome is held
    outputs,    \* the outputs argument of that call
    targets,    \* the targets argument of that call
    status,     \* how the last operation ended
    indices,    \* the list forward returned
    solved      \* the cost blocks linear_sum_assignment was invoked on

vars == <<cfg, matcher, pc, outputs, targets, status, indices, solved>>

NoMatcher == [constructed |-> FALSE, cost_class |-> 0, cost_moments |-> 0,
              cost_kl |-> 0]
NoOutputs == Outputs(0, 0, 0)

\* WeightsAccepted with "and" in the place of "or"
WeightsAcceptedAll(cost_class, cost_moments, cost_kl) ==
    cost_class # 0 /\ cost_moments # 0 /\ cost_kl # 0

\* assert cost_class != 0 or cost_moments != 0 or cost_kl != 0
WeightsAccepted(cost_class, cost_moments, cost_kl) ==
    cost_class # 0 \/ cost_moments # 0 \/ cost_kl # 0

\* HungarianMatcher.__init__: the object the caller receives
Construct(cost_class, cost_moments, cost_kl) ==
    LET self == [constructed |-> TRUE, cost_class |-> cost_class,
                 cost_moments |-> cost_moments, cost_kl |-> cost_kl]
    IN  IF WeightsAccepted(cost_class, cost_moments, cost_kl) THEN self
        ELSE NoMatcher

\* build_matcher(cfg): the keyword arguments it passes on
BuildMatcherArgs(c) ==
    [cost_class |-> c.matcher.cost_class,
     cost_moments |-> c.matcher.cost_moments,
     cost_kl |-> c.matcher.cost_kl]

Init ==
    /\ cfg = <<0, 0, 0>>
    /\ matcher = NoMatcher
    /\ pc = "idle"
    /\ outputs = NoOutputs
    /\ targets = <<>>
    /\ status = "none"
    /\ indices = <<>>
    /\ solved = <<>>

\* HungarianMatcher(cost_class, cost_moments, cost_kl)
New(w) ==
    /\ pc = "idle"
    /\ cfg' = w
    /\ matcher' = Construct(w[1], w[2], w[3])
    /\ status' = IF matcher'.constructed THEN "constructed"
                 ELSE "AssertionError"
    /\ UNCHANGED <<pc, outputs, targets, indices, solved>>

\* build_matcher(cfg)
BuildMatcher(w) ==
    /\ pc = "idle"
    /\ cfg' = w
    /\ matcher' =
         LET a == BuildMatcherArgs(
                    [matcher |-> [cost_class |-> w[1], cost_moments |-> w[2],
                                  cost_kl |-> w[3]]])
         IN  Construct(a.cost_class, a.cost_moments, a.cost_kl)
    /\ status' = IF matcher'.constructed THEN "constructed"
                 ELSE "AssertionError"
    /\ UNCHANGED <<pc, outputs, targets, indices, solved>>

\* the outcome r of a call, as the caller sees it
Returns(r) ==
    /\ status' = r.status
    /\ indices' = r.indices
    /\ solved' = r.solved

\* matcher(outputs, targets)
Forward(o, t) ==
    /\ pc = "idle"
    /\ matcher.constructed
    /\ Returns(ForwardResult(matcher, o, t))
    /\ outputs' = o
    /\ targets' = t
    /\ pc' = "returned"
    /\ UNCHANGED <<cfg, matcher>>

\* the caller takes the outcome of the call; the matcher keeps no trace of it
Return ==
    /\ pc = "returned"
    /\ pc' = "idle"
    /\ outputs' = NoOutputs
    /\ targets' = <<>>
    /\ status' = "constructed"
    /\ indices' = <<>>
    /\ solved' = <<>>
    /\ UNCHANGED <<cfg, matcher>>

Next ==
    \/ \E w \in WeightConfigs : New(w)
    \/ \E w \in WeightConfigs : BuildMatcher(w)
    \* calls that respect the documented shapes: len(targets) = batch_size
    \* and every target holds as many boxes as labels and moments
    \/ /\ pc = "idle"
       /\ \E bs \in 1 .. MaxBatch, nq \in 0 .. MaxQueries,
             seed \in Idx(Len(QueryPool)) :
            \E n \in CountLists(bs) :
                Forward(Outputs(bs, nq, seed), Targets(n, n, seed))
    \* calls whose targets list is one shorter or longer than the batch
    \/ /\ pc = "idle"
       /\ \E bs \in 1 .. MaxBatch, nq \in FewQueries :
            \E n \in CountLists(bs - 1) \cup CountLists(bs + 1) :
                Forward(Outputs(bs, nq, 0), Targets(n, n, 0))
    \* calls whose targets hold a number of boxes of their own
    \/ /\ pc = "idle"
       /\ \E bs \in 1 .. MaxBatch, nq \in FewQueries :
            \E n \in CountLists(bs) : \E b \in OtherBoxCounts(n) :
                Forward(Outputs(bs, nq, 0), Targets(n, b, 0))
    \/ Return

Spec == Init /\ [][Next]_vars
\* ------------------------------------------------------------- properties
Returned    == pc = "returned"
ReturnedOk  == Returned /\ status = "ok"

\* the call respects the documented shapes
WellFormedCall ==
    /\ Size(targets) = outputs.bs
    /\ \A k \in DOMAIN targets : targets[k].boxes = Size(targets[k].labels)

StrictlyIncreasing(f) == \A a, b \in DOMAIN f : a < b => f[a] < f[b]
Injective(f)          == \A a, b \in DOMAIN f : a # b => f[a] # f[b]
Values(f)             == {f[a] : a \in DOMAIN f}

\* C_k[i, j]: the entry of the batch cost matrix in row i of example k and
\* in column j of the columns of example k
BlockCost(k, i, j) ==
    CostMatrix(matcher, outputs, targets)
        [k * outputs.nq + i][SumTo([e \in DOMAIN targets |-> targets[e].boxes], k) + j]

\* a cost as the solver's double: above every finite sum when infinite
AsDouble(c) == IF c = PInf THEN 100 * FMax ELSE c

\* the total cost of the pairs (rows[a], cols[a]) in the block of example k
PairingCost(k, rows, cols) ==
    SumTo([a \in DOMAIN rows |-> AsDouble(BlockCost(k, rows[a], cols[a]))],
          Size(rows))

\* every one-to-one pairing of size min(nq, n) between Idx(nq) and Idx(n),
\* as [rows, cols]
Pairings(nq, n) ==
    IF nq <= n
    THEN {[rows |-> [a \in Idx(nq) |-> a], cols |-> f] :
            f \in {g \in [Idx(nq) -> Idx(n)] : Injective(g)}}
    ELSE {[rows |-> f, cols |-> [a \in Idx(n) |-> a]] :
            f \in {g \in [Idx(n) -> Idx(nq)] : Injective(g)}}

\* C1: whenever forward returns, the two index sequences of every example k
\* have the same length, and it is min(num_queries, n_k), n_k the number of
\* target boxes of example k.
C1_EqualLengthMin ==
    ReturnedOk =>
        \A k \in DOMAIN indices :
            /\ Size(indices[k].index_i) = Size(indices[k].index_j)
            /\ Size(indices[k].index_i) = Min(outputs.nq, targets[k].boxes)

\* a returned list with one example matched on all its targets and another
\* matched on all its queries
C1_Witness ==
    /\ ReturnedOk
    /\ \E k, e \in DOMAIN indices :
        /\ 0 < targets[k].boxes /\ targets[k].boxes < outputs.nq
        /\ targets[e].boxes >= outputs.nq
        /\ Size(indices[k].index_i) = targets[k].boxes
        /\ Size(indices[e].index_i) = outputs.nq

\* C2: whenever forward returns, the prediction indices of every example k
\* are pairwise distinct and lie in [0, num_queries), and its target indices
\* are pairwise distinct and lie in [0, n_k): they are local to the example.
C2_OneToOneLocal ==
    ReturnedOk =>
        \A k \in DOMAIN indices :
            /\ Injective(indices[k].index_i)
            /\ Values(indices[k].index_i) \subseteq Idx(outputs.nq)
            /\ Injective(indices[k].index_j)
            /\ Values(indices[k].index_j) \subseteq Idx(targets[k].boxes)

\* a later example of a batch, matched on two targets or more that follow
\* the columns of the earlier examples
C2_Witness ==
    /\ ReturnedOk
    /\ \E k \in DOMAIN indices :
        /\ k > 0 /\ targets[0].boxes > 0
        /\ Size(indices[k].index_j) >= 2
        /\ outputs.nq > targets[k].boxes

\* C3: whenever forward returns, the pairing of every example k costs no
\* more, in the example's own cost block, than any one-to-one pairing of
\* size min(num_queries, n_k) of its rows and columns.
C3_Optimal ==
    ReturnedOk =>
        \A k \in DOMAIN indices :
            \A p \in Pairings(outputs.nq, targets[k].boxes) :
                PairingCost(k, indices[k].index_i, indices[k].index_j)
                    <= PairingCost(k, p.rows, p.cols)

\* an optimum that a greedy choice misses: a matched prediction is paired
\* with a target that is not its cheapest one
C3_Witness ==
    /\ ReturnedOk
    /\ \E k \in DOMAIN indices : \E a \in DOMAIN indices[k].index_i :
        \E j \in Idx(targets[k].boxes) :
            BlockCost(k, indices[k].index_i[a], j)
                < BlockCost(k, indices[k].index_i[a], indices[k].index_j[a])

AllZero(w) == w[1] = 0 /\ w[2] = 0 /\ w[3] = 0

\* C5: a construction with the three weights zero fails and returns no
\* matcher, so forward never runs with all weights zero; a construction with
\* a non-zero weight succeeds and stores the three weights unchanged.
C5_AllZeroRejected ==
    /\ AllZero(cfg) => ~matcher.constructed
    /\ (status = "AssertionError") = (AllZero(cfg) /\ status # "none")
    /\ ~AllZero(cfg) =>
            /\ matcher.constructed
            /\ <<matcher.cost_class, matcher.cost_moments, matcher.cost_kl>> = cfg
    /\ Returned =>
            ~AllZero(<<matcher.cost_class, matcher.cost_moments, matcher.cost_kl>>)

\* the construction with three zero weights was tried, and failed
C5_Witness ==
    status = "AssertionError" /\ AllZero(cfg) /\ ~matcher.constructed

\* C6, as stated: for every example with zero targets forward completes and
\* returns two empty index sequences for it, whatever the other examples hold.
C6_ZeroTargetsEmpty ==
    (Returned /\ WellFormedCall) =>
        \A k \in DOMAIN targets :
            targets[k].boxes = 0 =>
                /\ status = "ok"
                /\ indices[k].index_i = <<>>
                /\ indices[k].index_j = <<>>

\* C7, as stated: with num_queries = 0 forward completes and returns two
\* empty index sequences for every example.
C7_ZeroQueriesEmpty ==
    (Returned /\ WellFormedCall /\ outputs.nq = 0) =>
        /\ status = "ok"
        /\ Size(indices) = outputs.bs
        /\ \A k \in DOMAIN indices :
            indices[k].index_i = <<>> /\ indices[k].index_j = <<>>

\* C8, as stated: when the targets list and the batch differ in length
\* forward fails and returns nothing, so a returned list has batch entries.
C8_BatchMismatchFails ==
    Returned =>
        /\ Size(targets) # outputs.bs => status # "ok"
        /\ status = "ok" => Size(indices) = outputs.bs

\* the entries of a cost block
Entries(block) == {block.c[i][j] : i \in Idx(block.nr), j \in Idx(block.nc)}

\* C9, as stated: with finite scores, moments and weights the solver is
\* never given a block with a non-finite entry: the non-finite entries of
\* the KL term are replaced by 1000, the finite ones kept, and the weighted
\* sum brings no non-finite entry back.
C9_SolverSeesFiniteCosts ==
    Returned =>
        /\ \A k \in DOMAIN solved : \A c \in Entries(solved[k]) : IsFinite(c)
        /\ LET raw == RawCostKL(outputs, targets)
               kl  == Sanitize(raw)
           IN  \A r \in DOMAIN raw : \A j \in DOMAIN raw[r] :
                   kl[r][j] = IF IsFinite(raw[r][j]) THEN raw[r][j]
                              ELSE 1000 * Unit

\* the cost block of example k computed from the predictions and the
\* label and moment rows of example k alone
OwnBlock(k) ==
    LET own == CostMatrix(matcher,
                   [bs |-> 1, nq |-> outputs.nq,
                    pred_logits  |-> [b \in {0} |-> outputs.pred_logits[k]],
                    pred_moments |-> [b \in {0} |-> outputs.pred_moments[k]]],
                   [e \in {0} |-> targets[k]])
    IN  [nr |-> outputs.nq, nc |-> Size(targets[k].labels),
         c  |-> [i \in Idx(outputs.nq) |->
                    [j \in Idx(Size(targets[k].labels)) |-> own[i][j]]]]

\* C10, as stated: the block solved for example k holds the rows
\* [k*nq, (k+1)*nq) and the columns [n_0+...+n_(k-1), n_0+...+n_k) of the
\* batch cost matrix, n_i the number of label and moment rows of example i;
\* so it is the block of example k's own predictions and targets, and so is
\* the result.
C10_OwnRowsAndColumns ==
    Returned =>
        /\ \A k \in DOMAIN solved :
            /\ solved[k].nr = outputs.nq
            /\ solved[k].nc = Size(targets[k].labels)
            /\ \A i \in Idx(solved[k].nr), j \in Idx(solved[k].nc) :
                solved[k].c[i][j] =
                    CostMatrix(matcher, outputs, targets)
                        [k * outputs.nq + i]
                        [SumTo([e \in DOMAIN targets |->
                                    Size(targets[e].labels)], k) + j]
            /\ solved[k] = OwnBlock(k)
        /\ \A k \in DOMAIN indices :
            indices[k] = IndexPair(LinearSumAssignment(OwnBlock(k)))

\* ------------------------------------------- the same, on well-formed calls
\* with queries and finite costs, zero targets give two empty sequences
ZeroTargetsWithQueries ==
    (Returned /\ WellFormedCall /\ outputs.nq > 0
        /\ \A k \in DOMAIN solved : \A c \in Entries(solved[k]) : IsFinite(c))
    => /\ status = "ok"
       /\ \A k \in DOMAIN targets :
            targets[k].boxes = 0 =>
                indices[k].index_i = <<>> /\ indices[k].index_j = <<>>

\* with as many boxes as labels in every target, each solved block is the
\* example's own
OwnBlocksWhenWellFormed ==
    (Returned /\ \A k \in DOMAIN targets :
                    targets[k].boxes = Size(targets[k].labels))
    => \A k \in DOMAIN solved : solved[k] = OwnBlock(k)

\* forward fails whenever there is no query
ZeroQueriesAlwaysFail == (Returned /\ outputs.nq = 0) => status = "RuntimeError"

\* a targets list shorter than the batch, not empty, with finite costs and
\* queries, is answered with a list of its own length
ShortTargetsTruncate ==
    (ReturnedOk /\ Size(targets) < outputs.bs) => Size(indices) = Size(targets)
=============================================================================
